---------------------------- MODULE Spec2Model ----------------------------
(***************************************************************************)
(* Paper-trading ledger of crypto_trading_agent (simulation.py): the       *)
(* TradingSimulator account (cash, open positions, closed-trade history,   *)
(* last price per market) and its operations place_order, close_position,  *)
(* update_price and reset; the tools of agent.py that call it; and         *)
(* get_ohlcv of market_tools.py, which feeds it prices from the exchanges. *)
(*                                                                         *)
(* Python floats are modelled as exact rationals <<n, d>> (d > 0, lowest   *)
(* terms); rounding is not modelled.  None is the empty tuple, so that an  *)
(* Optional[float] is either None or a rational.  Timestamps are <<t>>.    *)
(***************************************************************************)
EXTENDS Integers, Sequences, FiniteSets, TLC

\* the fields of TradingSimulator; next_uuid is the next id uuid4 gives (ids are
\* fresh, numbered in the order they are issued); now is the clock read by
\* _now(), advanced at each reading; issued is a history variable: the ids
\* place_order returned since the last reset
VARIABLES initial_balance, cash, positions, trade_history, last_prices,
          next_uuid, now, issued

\* the module state of market_tools.py: _primary_exchange_id and
\* _FALLBACK_EXCHANGES
VARIABLES primary_exchange_id, fallback_exchanges

\* the calls in progress when several callers share the simulator: for each
\* caller, where it stands in its call and the locals it holds
VARIABLES threads

vars == <<initial_balance, cash, positions, trade_history, last_prices,
          next_uuid, now, issued, primary_exchange_id, fallback_exchanges,
          threads>>

-----------------------------------------------------------------------------
(* Bounds of the model *)

\* ids handed out by uuid4 over the whole run (open + closed + forgotten)
MaxPositions == 2

-----------------------------------------------------------------------------
(* Exact rational arithmetic standing for Python float arithmetic *)

None == <<>>

Abs(i) == IF i < 0 THEN -i ELSE i

RECURSIVE GCD(_, _)
GCD(a, b) == IF b = 0 THEN a ELSE GCD(b, a % b)

Norm(n, d) ==
    LET g == GCD(Abs(n), Abs(d))
        s == IF d < 0 THEN -1 ELSE 1
    IN  <<(s * n) \div g, (s * d) \div g>>

R(i) == <<i, 1>>
Zero == R(0)
One == R(1)

RAdd(x, y) == Norm(x[1] * y[2] + y[1] * x[2], x[2] * y[2])
RSub(x, y) == Norm(x[1] * y[2] - y[1] * x[2], x[2] * y[2])
RMul(x, y) == Norm(x[1] * y[1], x[2] * y[2])
RDiv(x, y) == Norm(x[1] * y[2], x[2] * y[1])
RLt(x, y) == x[1] * y[2] < y[1] * x[2]
RLe(x, y) == x[1] * y[2] <= y[1] * x[2]

RECURSIVE RSum(_)
RSum(s) == IF s = <<>> THEN Zero ELSE RAdd(Head(s), RSum(Tail(s)))

-----------------------------------------------------------------------------
(* Input domains *)

Markets == {"BTC/USDT", "ETH/USDT"}
SideInputs == {"long", "short", "LONG", "buy"}
\* str.lower() on the side strings in use
Lower(s) == IF s = "LONG" THEN "long" ELSE s

\* prices observed on an exchange are positive
IngestPrices == {R(1), R(2)}
\* prices a caller may pass: omitted, non-positive or positive
PriceInputs == {None, R(-1), R(0), R(1), R(2)}
\* TradingSimulator(initial_balance) of the run, and what reset is given
StartBalance == R(5)
BalanceInputs == {None, R(1)}
\* notionals: invalid, small, the whole starting balance, more than that
NotionalInputs == {R(0), R(1), StartBalance, RAdd(StartBalance, R(1))}
IdInputs == 0..MaxPositions

\* _FALLBACK_EXCHANGES as the module sets it
FallbackDefault == <<"binance", "kraken", "coinbaseexchange", "kucoin", "bitfinex">>
ExchangeIds == {FallbackDefault[i] : i \in DOMAIN FallbackDefault}

\* the callers of a shared simulator, and a caller outside any call
Callers == {"a", "b"}
Idle == [pc |-> "idle"]
NoCalls == [t \in Callers |-> Idle]

Order(pair, side, notional, entry_price, stop_loss, take_profit) ==
    [pair |-> pair, side |-> side, notional |-> notional,
     entry_price |-> entry_price, stop_loss |-> stop_loss,
     take_profit |-> take_profit]

\* the requests the properties range over: every market, side string and
\* notional, with the entry price omitted, zero or positive
AnyOrder ==
    {Order(m, s, n, e, None, None) :
        m \in Markets, s \in SideInputs, n \in NotionalInputs,
        e \in {None, R(0), R(1)}}

\* the requests the run places
Orders ==
    { \* at the last price, with a stop, or a stop and a target
      Order("BTC/USDT", "long", R(1), None, R(1), None),
      Order("BTC/USDT", "short", R(1), None, R(2), R(1)),
      \* at a given entry price, the whole balance, with a target
      Order("ETH/USDT", "long", StartBalance, R(1), None, R(2)),
      \* a zero entry price
      Order("BTC/USDT", "LONG", R(1), R(0), R(1), None),
      \* rejected: side, notional, funds
      Order("BTC/USDT", "buy", R(1), R(1), None, None),
      Order("BTC/USDT", "long", R(0), R(1), None, None),
      Order("ETH/USDT", "short", RAdd(StartBalance, R(1)), R(1), None, None) }

\* the prices the run closes at: the last price of the market, or a negative one
ClosePrices == {None, R(-1)}

-----------------------------------------------------------------------------
(* SimPosition and the results of calls *)

\* a call either returns a value or raises an exception
Returned(v) == [status |-> "return", exc |-> "", msg |-> "", value |-> v]
Raised(e, m) == [status |-> "raise", exc |-> e, msg |-> m, value |-> None]

\* SimPosition(...) as built by place_order: the last four fields default
NewPosition(id, pair, side, entry_price, notional, stop_loss, take_profit, t) ==
    [id |-> id, pair |-> pair, side |-> side, entry_price |-> entry_price,
     notional |-> notional, stop_loss |-> stop_loss,
     take_profit |-> take_profit, opened_at |-> t, status |-> "open",
     closed_at |-> None, close_price |-> None, pnl |-> None]

\* the simulator as one value (with the clock and the uuid source it reads),
\* for the operations that call one another
Self ==
    [initial_balance |-> initial_balance, cash |-> cash,
     positions |-> positions, trade_history |-> trade_history,
     last_prices |-> last_prices, now |-> now, next_uuid |-> next_uuid]

\* the fields of the simulator become those of self
SimulatorBecomes(self) ==
    /\ initial_balance' = self.initial_balance
    /\ cash' = self.cash
    /\ positions' = self.positions
    /\ trade_history' = self.trade_history
    /\ last_prices' = self.last_prices
    /\ now' = self.now
    /\ next_uuid' = self.next_uuid

\* a call on the simulator run from start to end by one caller: the
\* simulator becomes self, nothing else is touched
Becomes(self) ==
    /\ SimulatorBecomes(self)
    /\ UNCHANGED <<primary_exchange_id, fallback_exchanges, threads>>

\* dict keys in insertion order: ids are issued in increasing order and a
\* deletion keeps the order of the rest
RECURSIVE KeysInOrder(_)
KeysInOrder(S) ==
    IF S = {} THEN <<>>
    ELSE LET k == CHOOSE x \in S : \A y \in S : x <= y
         IN  <<k>> \o KeysInOrder(S \ {k})

\* slip: the entry is not deleted
DelKey_Keep(d, k) == d

DelKey(d, k) == [x \in (DOMAIN d) \ {k} |-> d[x]]
SetKey(d, k, v) == [x \in (DOMAIN d) \cup {k} |-> IF x = k THEN v ELSE d[x]]

-----------------------------------------------------------------------------
(* PnL *)

\* float division by 0.0 raises ZeroDivisionError
PnlDivisionByZero(pos, price) ==
    IF pos.side = "long" THEN pos.entry_price = Zero ELSE price = Zero

\* slip: the long formula for both sides
calc_pnl_price_LongOnly(pos, price) ==
    RMul(pos.notional, RSub(RDiv(price, pos.entry_price), One))

calc_pnl_price(pos, price) ==
    IF pos.side = "long"
    THEN RMul(pos.notional, RSub(RDiv(price, pos.entry_price), One))
    ELSE RMul(pos.notional, RSub(RDiv(pos.entry_price, price), One))

-----------------------------------------------------------------------------
(* close_position *)

\* slip: the principal is not returned
Credit_PnlOnly(c, pos, pnl) == RAdd(c, pnl)

Credit(c, pos, pnl) == RAdd(c, RAdd(pos.notional, pnl))

\* slip: pnl is not stored
ClosedPosition_NoPnl(pos, price, pnl, t) ==
    [pos EXCEPT !.status = "closed", !.closed_at = t, !.close_price = price]

ClosedPosition(pos, price, pnl, t) ==
    [pos EXCEPT !.status = "closed", !.closed_at = t, !.close_price = price,
                !.pnl = pnl]

\* slip: insert(0, pos) where the code appends
AppendTrade_Front(history, pos) == <<pos>> \o history

AppendTrade(history, pos) == Append(history, pos)

\* slip: an unknown id is passed over in silence
NotFound_Silent(self, pos_id) == [self |-> self, out |-> Returned(None)]

\* raise KeyError(f"Position {pos_id} not found")
NotFound(self, pos_id) == [self |-> self, out |-> Raised("KeyError", "not found")]

\* slip: the entry price where the code takes the last price
ClosePriceOf_Entry(self, pos, price) ==
    IF price = None THEN pos.entry_price ELSE price

\* price, or self.last_prices.get(pos.pair) when price is None
ClosePriceOf(self, pos, price) ==
    IF price = None THEN self.last_prices[pos.pair] ELSE price

\* the simulator after close_position(pos_id, price) and what the call gives
ClosePosition(self, pos_id, price) ==
    IF pos_id \notin DOMAIN self.positions
    THEN NotFound(self, pos_id)
    ELSE
      LET pos == self.positions[pos_id] IN
      IF pos.status # "open"
      THEN [self |-> self, out |-> Returned(<<pos>>)]
      ELSE
        LET p == ClosePriceOf(self, pos, price) IN
        IF p = None
        THEN [self |-> self, out |-> Raised("ValueError", "No last price")]
        ELSE IF PnlDivisionByZero(pos, p)
        THEN [self |-> self,
              out |-> Raised("ZeroDivisionError", "float division by zero")]
        ELSE
          LET pnl == calc_pnl_price(pos, p)
              closed == ClosedPosition(pos, p, pnl, <<self.now>>)
          IN  [self |-> [self EXCEPT !.cash = Credit(@, pos, pnl),
                                     !.now = @ + 1,
                                     !.trade_history = AppendTrade(@, closed),
                                     !.positions = DelKey(@, pos_id)],
               out |-> Returned(<<closed>>)]

close_position(pos_id, price) ==
    /\ Becomes(ClosePosition(Self, pos_id, price).self)
    /\ UNCHANGED issued

-----------------------------------------------------------------------------
(* update_price *)

hit_sl(pos, price) ==
    /\ pos.stop_loss # None
    /\ \/ pos.side = "long" /\ RLe(price, pos.stop_loss)
       \/ pos.side = "short" /\ RLe(pos.stop_loss, price)

hit_tp(pos, price) ==
    /\ pos.take_profit # None
    /\ \/ pos.side = "long" /\ RLe(pos.take_profit, price)
       \/ pos.side = "short" /\ RLe(price, pos.take_profit)

check_and_maybe_close(self, pos, price) ==
    IF hit_sl(pos, price) \/ hit_tp(pos, price)
    THEN ClosePosition(self, pos.id, price)
    ELSE [self |-> self, out |-> Returned(None)]

\* slip: the market of the position is not looked at
PassedOver_ClosedOnly(pos, pair) == pos.status # "open"

\* if pos.pair != pair or pos.status != "open": continue
PassedOver(pos, pair) == pos.pair # pair \/ pos.status # "open"

\* the for loop over list(self.positions.values()); an exception ends it
RECURSIVE PriceLoop(_, _, _, _)
PriceLoop(self, snapshot, pair, price) ==
    IF snapshot = <<>> THEN [self |-> self, out |-> Returned(None)]
    ELSE
      LET pos == Head(snapshot) IN
      IF PassedOver(pos, pair)
      THEN PriceLoop(self, Tail(snapshot), pair, price)
      ELSE
        LET r == check_and_maybe_close(self, pos, price) IN
        IF r.out.status = "raise" THEN r
        ELSE PriceLoop(r.self, Tail(snapshot), pair, price)

\* slip: setdefault, the first price of a market is never replaced
UpdatePrice_SetDefault(self, pair, price) ==
    LET s1 == IF self.last_prices[pair] = None
              THEN [self EXCEPT !.last_prices[pair] = price]
              ELSE self
        keys == KeysInOrder(DOMAIN s1.positions)
        snapshot == [i \in 1..Len(keys) |-> s1.positions[keys[i]]]
    IN  PriceLoop(s1, snapshot, pair, price)

UpdatePrice(self, pair, price) ==
    LET s1 == [self EXCEPT !.last_prices[pair] = price]
        keys == KeysInOrder(DOMAIN s1.positions)
        snapshot == [i \in 1..Len(keys) |-> s1.positions[keys[i]]]
    IN  PriceLoop(s1, snapshot, pair, price)

update_price(pair, price) ==
    /\ Becomes(UpdatePrice(Self, pair, price).self)
    /\ UNCHANGED issued

-----------------------------------------------------------------------------
(* place_order *)

InvalidSide(side) == Lower(side) \notin {"long", "short"}
\* slip: < where the code has <=
NonPositiveNotional_Strict(notional) == RLt(notional, Zero)
NonPositiveNotional(notional) == RLe(notional, Zero)
\* slip: >= where the code has >
InsufficientCash_Ge(notional, c) == RLe(c, notional)
InsufficientCash(notional, c) == RLt(c, notional)
\* slip: the notional is not taken from cash
Debit_None(c, notional) == c
Debit(c, notional) == RSub(c, notional)

\* the simulator after place_order(**req) and what the call gives
PlaceOrder(self, req) ==
    LET fail(m) == [self |-> self, out |-> Raised("ValueError", m)] IN
    IF InvalidSide(req.side) THEN fail("side must be 'long' or 'short'")
    ELSE IF NonPositiveNotional(req.notional) THEN fail("notional must be > 0")
    ELSE IF InsufficientCash(req.notional, self.cash) THEN fail("Insufficient cash")
    ELSE IF req.entry_price = None /\ self.last_prices[req.pair] = None
    THEN fail("No last price")
    ELSE
      LET entry == IF req.entry_price = None THEN self.last_prices[req.pair]
                   ELSE req.entry_price
          pos == NewPosition(self.next_uuid, req.pair, Lower(req.side), entry,
                             req.notional, req.stop_loss, req.take_profit,
                             <<self.now>>)
      IN  [self |-> [self EXCEPT !.cash = Debit(@, req.notional),
                                 !.next_uuid = @ + 1,
                                 !.now = @ + 1,
                                 !.positions = SetKey(@, pos.id, pos)],
           out |-> Returned(<<pos>>)]

place_order(req) ==
    LET r == PlaceOrder(Self, req) IN
    /\ r.out.status = "return" => next_uuid <= MaxPositions
    /\ Becomes(r.self)
    /\ issued' = IF r.out.status = "return" THEN issued \cup {next_uuid} ELSE issued

-----------------------------------------------------------------------------
(* reset *)

NoPrices == [m \in Markets |-> None]
NoPositions == [x \in {} |-> None]

\* slip: last_prices is not cleared
Reset_KeepPrices(self, new_balance) ==
    LET b == IF new_balance # None THEN new_balance ELSE self.initial_balance IN
    [self |-> [self EXCEPT !.initial_balance = b,
                           !.cash = b,
                           !.positions = NoPositions,
                           !.trade_history = <<>>],
     out |-> Returned(None)]

Reset(self, new_balance) ==
    LET b == IF new_balance # None THEN new_balance ELSE self.initial_balance IN
    [self |-> [self EXCEPT !.initial_balance = b,
                           !.cash = b,
                           !.positions = NoPositions,
                           !.trade_history = <<>>,
                           !.last_prices = NoPrices],
     out |-> Returned(None)]

reset(new_balance) ==
    /\ Becomes(Reset(Self, new_balance).self)
    /\ issued' = {}

-----------------------------------------------------------------------------
(* place_order and close_position statement by statement, as two callers of
   one simulator run them when nothing keeps them apart: a caller may be
   suspended between any two statements *)

RaceOrders ==
    { Order("ETH/USDT", "long", StartBalance, R(1), None, None),
      Order("BTC/USDT", "short", R(1), R(1), None, None) }
RacePrices == {R(1), R(2)}

\* calls that have passed the checks of place_order and not yet stored
\* their position
Pending == {t \in Callers : threads[t].pc \in {"debit", "insert"}}

Goes(t, local) == threads' = [threads EXCEPT ![t] = local]

\* the SimPosition object with this id, in the dict or in the history
Object(id) ==
    IF id \in DOMAIN positions THEN positions[id]
    ELSE trade_history[CHOOSE i \in DOMAIN trade_history : trade_history[i].id = id]

\* place_order up to the last check: side, notional, cash, entry price
po_check(t, req) ==
    LET r == PlaceOrder(Self, req) IN
    /\ threads[t].pc = "idle"
    /\ next_uuid + Cardinality(Pending) <= MaxPositions
    /\ IF r.out.status = "raise" THEN UNCHANGED threads
       ELSE Goes(t, [pc |-> "debit", req |-> req,
                     entry |-> r.out.value[1].entry_price])
    /\ UNCHANGED <<initial_balance, cash, positions, trade_history, last_prices,
                   next_uuid, now, issued, primary_exchange_id,
                   fallback_exchanges>>

\* self.cash -= notional
po_debit(t) ==
    /\ threads[t].pc = "debit"
    /\ cash' = Debit(cash, threads[t].req.notional)
    /\ Goes(t, [threads[t] EXCEPT !.pc = "insert"])
    /\ UNCHANGED <<initial_balance, positions, trade_history, last_prices,
                   next_uuid, now, issued, primary_exchange_id,
                   fallback_exchanges>>

\* pos = SimPosition(...); self.positions[pos.id] = pos
po_insert(t) ==
    LET req == threads[t].req
        pos == NewPosition(next_uuid, req.pair, Lower(req.side), threads[t].entry,
                           req.notional, req.stop_loss, req.take_profit, <<now>>)
    IN  /\ threads[t].pc = "insert"
        /\ positions' = SetKey(positions, pos.id, pos)
        /\ next_uuid' = next_uuid + 1
        /\ now' = now + 1
        /\ issued' = issued \cup {pos.id}
        /\ Goes(t, Idle)
        /\ UNCHANGED <<initial_balance, cash, trade_history, last_prices,
                       primary_exchange_id, fallback_exchanges>>

\* close_position up to the price: the id is looked up, the status read,
\* the price resolved
cp_check(t, pos_id, price) ==
    /\ threads[t].pc = "idle"
    /\ IF pos_id \notin DOMAIN positions THEN UNCHANGED threads
       ELSE LET pos == positions[pos_id]
                p == ClosePriceOf(Self, pos, price)
            IN  IF pos.status # "open" \/ p = None THEN UNCHANGED threads
                ELSE Goes(t, [pc |-> "credit", pos_id |-> pos_id, price |-> p])
    /\ UNCHANGED <<initial_balance, cash, positions, trade_history, last_prices,
                   next_uuid, now, issued, primary_exchange_id,
                   fallback_exchanges>>

\* pnl = self._calc_pnl_price(pos, price); self.cash += pos.notional + pnl
cp_credit(t) ==
    LET pos == Object(threads[t].pos_id)
        price == threads[t].price
    IN  /\ threads[t].pc = "credit"
        /\ IF PnlDivisionByZero(pos, price)
           THEN Goes(t, Idle) /\ UNCHANGED cash
           ELSE LET pnl == calc_pnl_price(pos, price) IN
                /\ cash' = Credit(cash, pos, pnl)
                /\ Goes(t, [pc |-> "mark", pos_id |-> pos.id, price |-> price,
                            pnl |-> pnl])
        /\ UNCHANGED <<initial_balance, positions, trade_history, last_prices,
                       next_uuid, now, issued, primary_exchange_id,
                       fallback_exchanges>>

\* pos.status, pos.closed_at, pos.close_price, pos.pnl are set on the object,
\* wherever it is referenced from
cp_mark(t) ==
    LET id == threads[t].pos_id
        closed(pos) == ClosedPosition(pos, threads[t].price, threads[t].pnl, <<now>>)
    IN  /\ threads[t].pc = "mark"
        /\ positions' = [k \in DOMAIN positions |->
                           IF k = id THEN closed(positions[k]) ELSE positions[k]]
        /\ trade_history' = [i \in DOMAIN trade_history |->
                               IF trade_history[i].id = id
                               THEN closed(trade_history[i]) ELSE trade_history[i]]
        /\ now' = now + 1
        /\ Goes(t, [pc |-> "append", pos_id |-> id])
        /\ UNCHANGED <<initial_balance, cash, last_prices, next_uuid, issued,
                       primary_exchange_id, fallback_exchanges>>

\* self.trade_history.append(pos)
cp_append(t) ==
    /\ threads[t].pc = "append"
    /\ trade_history' = AppendTrade(trade_history, Object(threads[t].pos_id))
    /\ Goes(t, [threads[t] EXCEPT !.pc = "delete"])
    /\ UNCHANGED <<initial_balance, cash, positions, last_prices, next_uuid, now,
                   issued, primary_exchange_id, fallback_exchanges>>

\* del self.positions[pos_id]: KeyError when the other caller deleted it
cp_delete(t) ==
    /\ threads[t].pc = "delete"
    /\ positions' = IF threads[t].pos_id \in DOMAIN positions
                    THEN DelKey(positions, threads[t].pos_id)
                    ELSE positions
    /\ Goes(t, Idle)
    /\ UNCHANGED <<initial_balance, cash, trade_history, last_prices, next_uuid,
                   now, issued, primary_exchange_id, fallback_exchanges>>

-----------------------------------------------------------------------------
(* portfolio_state *)

\* (p.pnl or 0.0)
PnlOrZero(p) == IF p.pnl = None THEN Zero ELSE p.pnl

\* the positions that _equity marks to market: open, with a last price
Marked(self) ==
    LET keys == KeysInOrder(DOMAIN self.positions)
    IN  SelectSeq([i \in 1..Len(keys) |-> self.positions[keys[i]]],
                  LAMBDA pos : /\ self.last_prices[pos.pair] # None
                               /\ pos.status = "open")

\* _equity divides by zero on one of the positions it marks
EquityDivisionByZero(self) ==
    LET marked == Marked(self)
    IN  \E i \in DOMAIN marked :
            PnlDivisionByZero(marked[i], self.last_prices[marked[i].pair])

\* cash + unrealized
equity(self) ==
    LET marked == Marked(self)
    IN  RAdd(self.cash,
             RSum([i \in DOMAIN marked |->
                     calc_pnl_price(marked[i], self.last_prices[marked[i].pair])]))

\* the simulator after portfolio_state() and what the call gives
PortfolioState(self) ==
    IF EquityDivisionByZero(self)
    THEN [self |-> self,
          out |-> Raised("ZeroDivisionError", "float division by zero")]
    ELSE
      LET keys == KeysInOrder(DOMAIN self.positions) IN
      [self |-> self,
       out |-> Returned(<<[initial_balance |-> self.initial_balance,
                           cash |-> self.cash,
                           equity |-> equity(self),
                           open_positions |->
                               [i \in 1..Len(keys) |-> self.positions[keys[i]]],
                           realized_pnl |->
                               RSum([i \in DOMAIN self.trade_history |->
                                       PnlOrZero(self.trade_history[i])]),
                           open_count |-> Cardinality(DOMAIN self.positions),
                           trade_count |-> Len(self.trade_history)]>>)]

portfolio_state ==
    /\ Becomes(PortfolioState(Self).self)
    /\ UNCHANGED issued

-----------------------------------------------------------------------------
(* trade_history_summary *)

LimitInputs == {0, 1, 2, 50}

\* where the slice lst[-limit:] of a list of n items starts
SliceStart(n, limit) ==
    LET start == 0 - limit IN
    IF start < 0
    THEN IF start + n < 0 THEN 0 ELSE start + n
    ELSE IF start > n THEN n ELSE start

\* self.trade_history[-limit:]
LastTrades(history, limit) ==
    SubSeq(history, SliceStart(Len(history), limit) + 1, Len(history))

\* slip: a flat trade counts as a win
IsWin_Ge(t) == RLe(Zero, PnlOrZero(t))

IsWin(t) == RLt(Zero, PnlOrZero(t))
IsLoss(t) == RLt(PnlOrZero(t), Zero)

\* slip: the trades handed out are taken off the history
TradeHistorySummary_Consume(self, limit) ==
    LET trades == LastTrades(self.trade_history, limit)
        wins == Len(SelectSeq(trades, IsWin))
        losses == Len(SelectSeq(trades, IsLoss))
        total == Len(trades)
    IN  [self |-> [self EXCEPT !.trade_history =
                       SubSeq(@, 1, Len(@) - total)],
         out |-> Returned(<<[trades |-> trades,
                             total_trades |-> total,
                             wins |-> wins,
                             losses |-> losses,
                             win_rate |-> IF total > 0 THEN RDiv(R(wins), R(total))
                                          ELSE Zero,
                             total_pnl |-> RSum([i \in DOMAIN trades |->
                                                   PnlOrZero(trades[i])])]>>)]

\* the simulator after trade_history_summary(limit) and what the call gives
TradeHistorySummary(self, limit) ==
    LET trades == LastTrades(self.trade_history, limit)
        wins == Len(SelectSeq(trades, IsWin))
        losses == Len(SelectSeq(trades, IsLoss))
        total == Len(trades)
    IN  [self |-> self,
         out |-> Returned(<<[trades |-> trades,
                             total_trades |-> total,
                             wins |-> wins,
                             losses |-> losses,
                             win_rate |-> IF total > 0 THEN RDiv(R(wins), R(total))
                                          ELSE Zero,
                             total_pnl |-> RSum([i \in DOMAIN trades |->
                                                   PnlOrZero(trades[i])])]>>)]

trade_history_summary(limit) ==
    /\ Becomes(TradeHistorySummary(Self, limit).self)
    /\ UNCHANGED issued

-----------------------------------------------------------------------------
(* The tools the agent calls: they work on GLOBAL_SIMULATOR and answer with
   a dict whose "status" is "success" or "error" *)

Success(body) == [status |-> "success", error_message |-> "", body |-> <<body>>]
\* {"status": "error", "error_message": ...}
Error(m) == [status |-> "error", error_message |-> m, body |-> None]

\* except Exception as e: return {"status": "error", "error_message": str(e)}
Caught(self, out) == [self |-> self, out |-> Returned(<<Error(out.msg)>>)]

RAbs(x) == <<Abs(x[1]), x[2]>>
Hundred == R(100)

RiskInputs == {R(0), R(1)}
StopInputs == {R(1), R(2)}

\* slip: < where the code has <=
NonPositiveRisk_Strict(risk_fraction) == RLt(risk_fraction, Zero)
\* risk_fraction <= 0
NonPositiveRisk(risk_fraction) == RLe(risk_fraction, Zero)

\* slip: the abs() is missing
StopDistance_Signed(stop_loss, last_price) ==
    RSub(One, RDiv(stop_loss, last_price))
\* abs(1.0 - (stop_loss / last_price))
StopDistance(stop_loss, last_price) ==
    RAbs(RSub(One, RDiv(stop_loss, last_price)))

\* suggest_notional_from_risk(risk_percent, pair, stop_loss)
SuggestNotionalFromRisk(self, risk_percent, pair, stop_loss) ==
    LET p == PortfolioState(self)
        answer(d) == [self |-> p.self, out |-> Returned(<<d>>)]
    IN
    IF p.out.status = "raise" THEN Caught(p.self, p.out)
    ELSE
      LET eq == p.out.value[1].equity
          last_price == p.self.last_prices[pair]
          risk_fraction == RDiv(risk_percent, Hundred)
      IN
      IF RLe(eq, Zero) THEN answer(Error("Equity is non-positive"))
      ELSE IF last_price = None THEN answer(Error("No last price"))
      ELSE IF NonPositiveRisk(risk_fraction)
      THEN answer(Error("risk_percent must be > 0"))
      ELSE IF last_price = Zero
      THEN Caught(p.self, Raised("ZeroDivisionError", "float division by zero"))
      ELSE
        LET stop_dist == StopDistance(stop_loss, last_price) IN
        IF RLe(stop_dist, Zero) THEN answer(Error("Stop distance is zero"))
        ELSE
          LET risk_amount == RMul(eq, risk_fraction)
              notional == RDiv(risk_amount, stop_dist)
          IN  answer(Success([notional |-> notional,
                              equity |-> eq,
                              last_price |-> last_price,
                              risk_amount |-> risk_amount]))

suggest_notional_from_risk(risk_percent, pair, stop_loss) ==
    /\ Becomes(SuggestNotionalFromRisk(Self, risk_percent, pair, stop_loss).self)
    /\ UNCHANGED issued

\* MAX_NOTIONAL_FRACTION = 0.20
MAX_NOTIONAL_FRACTION_Half == <<1, 2>>
MAX_NOTIONAL_FRACTION == <<1, 5>>

\* sim_place_order(pair, side, notional, entry_price, stop_loss, take_profit)
SimPlaceOrder(self, req) ==
    LET p == PortfolioState(self) IN
    IF p.out.status = "raise" THEN Caught(p.self, p.out)
    ELSE
      LET max_notional == RMul(p.out.value[1].equity, MAX_NOTIONAL_FRACTION) IN
      IF RLt(max_notional, req.notional)
      THEN [self |-> p.self, out |-> Returned(<<Error("too large")>>)]
      ELSE
        LET r == PlaceOrder(p.self, req) IN
        IF r.out.status = "raise" THEN Caught(r.self, r.out)
        ELSE [self |-> r.self,
              out |-> Returned(<<Success([position |-> r.out.value[1]])>>)]

sim_place_order(req) ==
    LET r == SimPlaceOrder(Self, req) IN
    /\ r.self.next_uuid # next_uuid => next_uuid <= MaxPositions
    /\ Becomes(r.self)
    /\ issued' = IF r.self.next_uuid # next_uuid THEN issued \cup {next_uuid}
                 ELSE issued

\* sim_close_position(position_id, price)
SimClosePosition(self, position_id, price) ==
    LET r == ClosePosition(self, position_id, price) IN
    IF r.out.status = "raise" THEN Caught(r.self, r.out)
    ELSE [self |-> r.self,
          out |-> Returned(<<Success([position |-> r.out.value[1]])>>)]

sim_close_position(position_id, price) ==
    /\ Becomes(SimClosePosition(Self, position_id, price).self)
    /\ UNCHANGED issued

\* sim_portfolio_state(): no try around the call
SimPortfolioState(self) ==
    LET p == PortfolioState(self) IN
    IF p.out.status = "raise" THEN p
    ELSE [self |-> p.self,
          out |-> Returned(<<Success([portfolio |-> p.out.value[1]])>>)]

sim_portfolio_state ==
    /\ Becomes(SimPortfolioState(Self).self)
    /\ UNCHANGED issued

\* sim_trade_history(limit): no try around the call
SimTradeHistory(self, limit) ==
    LET h == TradeHistorySummary(self, limit) IN
    IF h.out.status = "raise" THEN h
    ELSE [self |-> h.self,
          out |-> Returned(<<Success([history |-> h.out.value[1]])>>)]

sim_trade_history(limit) ==
    /\ Becomes(SimTradeHistory(Self, limit).self)
    /\ UNCHANGED issued

\* sim_reset(initial_balance): reset, then portfolio_state, no try around either
SimReset(self, new_balance) ==
    LET r == Reset(self, new_balance)
        p == PortfolioState(r.self)
    IN  IF p.out.status = "raise" THEN p
        ELSE [self |-> p.self,
              out |-> Returned(<<Success([portfolio |-> p.out.value[1]])>>)]

sim_reset(new_balance) ==
    /\ Becomes(SimReset(Self, new_balance).self)
    /\ issued' = {}

-----------------------------------------------------------------------------
(* market_tools: the OHLCV adapter with failover *)

\* ccxt.exchanges: the ids the installed library knows
CcxtExchanges == ExchangeIds \cup {"okx"}

\* str.lower() on the exchange ids in use
LowerId(e) == IF e = "Kraken" THEN "kraken" ELSE e
\* the lists a caller configures, the empty one included
FallbackInputs ==
    {<<>>, <<"Kraken", "binance", "kucoin">>, <<"bitfinex", "okx">>}
\* the ids a caller makes primary: mixed case, known, unknown to ccxt
PrimaryInputs == {"Kraken", "okx", "nyse"}

\* what one exchange does when asked for the candles: instantiation or
\* fetch_ohlcv raises, the timeframe is not in ex.timeframes, or rows come
\* back, of which the model keeps the close (None: a row float() rejects)
Raises == [kind |-> "raise", closes |-> <<>>]
Unsupported == [kind |-> "unsupported", closes |-> <<>>]
Candles(closes) == [kind |-> "ok", closes |-> closes]

Series == {<<>>, <<R(1)>>, <<R(1), R(2)>>, <<R(2), R(1)>>, <<None>>}
OtherSeries == {<<>>, <<R(2)>>}
\* the exchanges of one call: those that raise, those without the
\* timeframe, and the rows the others return (the first two default
\* exchanges one series, the rest another)
Feed(raising, unsupported, c1, c2) ==
    [e \in CcxtExchanges |->
        IF e \in raising THEN Raises
        ELSE IF e \in unsupported THEN Unsupported
        ELSE IF e \in {"binance", "kraken"} THEN Candles(c1)
        ELSE Candles(c2)]
FeedInputs ==
    {Feed(r, u, c1, c2) :
        r \in {{}, {"binance"}, {"binance", "kraken"}, CcxtExchanges},
        u \in {{}, {"kraken"}, {"coinbaseexchange", "kucoin"}},
        c1 \in Series, c2 \in OtherSeries}

\* set_fallback_exchanges(order)
SetFallbackExchanges(fallbacks, order) ==
    IF order = <<>>
    THEN [fallbacks |-> fallbacks,
          out |-> Raised("ValueError", "Fallback exchange list must not be empty")]
    ELSE [fallbacks |-> [i \in DOMAIN order |-> LowerId(order[i])],
          out |-> Returned(None)]

set_fallback_exchanges(order) ==
    /\ fallback_exchanges' = SetFallbackExchanges(fallback_exchanges, order).fallbacks
    /\ UNCHANGED <<initial_balance, cash, positions, trade_history, last_prices,
                   next_uuid, now, issued, primary_exchange_id, threads>>

\* set_primary_exchange(exchange_id): the id is stored before it is
\* instantiated
SetPrimaryExchange(exchange_id) ==
    [primary |-> LowerId(exchange_id),
     out |-> IF LowerId(exchange_id) \in CcxtExchanges THEN Returned(None)
             ELSE Raised("ValueError", "Exchange id not supported by ccxt")]

set_primary_exchange(exchange_id) ==
    /\ primary_exchange_id' = SetPrimaryExchange(exchange_id).primary
    /\ UNCHANGED <<initial_balance, cash, positions, trade_history, last_prices,
                   next_uuid, now, issued, fallback_exchanges, threads>>

\* slip: the primary is not put in front
Candidates_FallbacksOnly(primary, fallbacks) == fallbacks

\* candidates = [primary] + [e for e in fallbacks if e != primary]
Candidates(primary, fallbacks) ==
    <<primary>> \o SelectSeq(fallbacks, LAMBDA e : e # primary)

\* one turn of the loop: _instantiate_exchange, the timeframe test, the fetch
Attempt(ex_id, fetch) ==
    IF ex_id \notin CcxtExchanges THEN Raises ELSE fetch[ex_id]

\* for ex_id in candidates: the first exchange that answers ends the loop;
\* errors holds the ids that failed before it, in the order tried
RECURSIVE TryExchanges(_, _, _, _)
TryExchanges(candidates, i, fetch, errors) ==
    IF i > Len(candidates)
    THEN [found |-> FALSE, used |-> "", raw |-> <<>>, errors |-> errors]
    ELSE LET o == Attempt(candidates[i], fetch) IN
         IF o.kind = "ok"
         THEN [found |-> TRUE, used |-> candidates[i], raw |-> o.closes,
               errors |-> errors]
         ELSE TryExchanges(candidates, i + 1, fetch, Append(errors, candidates[i]))

\* slip: the close of the first candle
LastClose_First(candles) == candles[1]

\* candles[-1]["close"]
LastClose(candles) == candles[Len(candles)]

\* get_ohlcv(pair, timeframe, limit), with the answers of the exchanges as
\* fetch: the primary, the simulator and the result after the call
GetOhlcv(primary, fallbacks, self, pair, fetch) ==
    LET t == TryExchanges(Candidates(primary, fallbacks), 1, fetch, <<>>) IN
    IF ~t.found
    THEN [primary |-> primary, self |-> self, tried |-> t.errors,
          out |-> Returned(<<Error("Failed to fetch OHLCV from all candidate exchanges")>>)]
    ELSE IF \E i \in DOMAIN t.raw : t.raw[i] = None
    THEN [primary |-> t.used, self |-> self, tried |-> Append(t.errors, t.used),
          out |-> Raised("TypeError", "float() argument must be a string or a real number")]
    ELSE IF t.raw = <<>>
    THEN [primary |-> t.used, self |-> self, tried |-> Append(t.errors, t.used),
          out |-> Returned(<<Success([pair |-> pair, exchange |-> t.used,
                                      candles |-> t.raw])>>)]
    ELSE LET u == UpdatePrice(self, pair, LastClose(t.raw)) IN
         [primary |-> t.used, self |-> u.self, tried |-> Append(t.errors, t.used),
          out |-> IF u.out.status = "raise" THEN u.out
                  ELSE Returned(<<Success([pair |-> pair, exchange |-> t.used,
                                           candles |-> t.raw])>>)]

get_ohlcv(pair, fetch) ==
    LET r == GetOhlcv(primary_exchange_id, fallback_exchanges, Self, pair, fetch) IN
    /\ SimulatorBecomes(r.self)
    /\ primary_exchange_id' = r.primary
    /\ UNCHANGED <<fallback_exchanges, threads, issued>>

-----------------------------------------------------------------------------
(* The simulator *)

\* TradingSimulator(initial_balance)
Init ==
    /\ initial_balance = StartBalance
    /\ cash = initial_balance
    /\ positions = NoPositions
    /\ trade_history = <<>>
    /\ last_prices = NoPrices
    /\ next_uuid = 1
    /\ now = 0
    /\ issued = {}
    /\ primary_exchange_id = FallbackDefault[1]
    /\ fallback_exchanges = FallbackDefault
    /\ threads = NoCalls

Next ==
    \/ \E req \in Orders : place_order(req)
    \/ \E pos_id \in IdInputs, price \in ClosePrices : close_position(pos_id, price)
    \/ \E pair \in Markets, price \in IngestPrices : update_price(pair, price)
    \/ \E new_balance \in BalanceInputs : reset(new_balance)
    \/ portfolio_state
    \/ \E limit \in LimitInputs : trade_history_summary(limit)

Spec == Init /\ [][Next]_vars

\* the same simulator driven through the agent's tools; prices arrive through
\* update_price
AgentNext ==
    \/ \E req \in Orders : sim_place_order(req)
    \/ \E position_id \in IdInputs, price \in ClosePrices :
           sim_close_position(position_id, price)
    \/ \E pair \in Markets, price \in IngestPrices : update_price(pair, price)
    \/ \E new_balance \in BalanceInputs : sim_reset(new_balance)
    \/ sim_portfolio_state
    \/ \E limit \in LimitInputs : sim_trade_history(limit)
    \/ \E risk_percent \in RiskInputs, pair \in Markets, stop_loss \in StopInputs :
           suggest_notional_from_risk(risk_percent, pair, stop_loss)

AgentSpec == Init /\ [][AgentNext]_vars

\* two callers on one simulator, no lock
RaceNext ==
    \E t \in Callers :
        \/ \E req \in RaceOrders : po_check(t, req)
        \/ po_debit(t)
        \/ po_insert(t)
        \/ \E pos_id \in IdInputs, price \in RacePrices : cp_check(t, pos_id, price)
        \/ cp_credit(t)
        \/ cp_mark(t)
        \/ cp_append(t)
        \/ cp_delete(t)

RaceSpec == Init /\ [][RaceNext]_vars

-----------------------------------------------------------------------------
(* GLOBAL_SIMULATOR as the module creates it, at the prices and sizes of a
   desk: the agent sizes a trade, places it, and prices arrive *)

\* GLOBAL_SIMULATOR = TradingSimulator(initial_balance=10_000.0)
GlobalBalance == R(10000)

DeskMarket == "BTC/USDT"
DeskPrices == {R(95), R(100), R(105)}
DeskRisks == {R(0), R(1)}
DeskOrders ==
    { \* the size suggested for 1% at 100 with the stop at 95, and at 105
      Order(DeskMarket, "long", R(2000), None, R(95), None),
      Order(DeskMarket, "short", R(2000), None, R(105), None),
      \* bought far below the market
      Order(DeskMarket, "long", R(2000), R(1), None, None),
      \* the whole starting balance
      Order(DeskMarket, "long", GlobalBalance, None, None, None) }

DeskInit ==
    /\ initial_balance = GlobalBalance
    /\ cash = initial_balance
    /\ positions = NoPositions
    /\ trade_history = <<>>
    /\ last_prices = NoPrices
    /\ next_uuid = 1
    /\ now = 0
    /\ issued = {}
    /\ primary_exchange_id = FallbackDefault[1]
    /\ fallback_exchanges = FallbackDefault
    /\ threads = NoCalls

DeskNext ==
    \/ \E risk_percent \in DeskRisks, stop_loss \in DeskPrices :
           suggest_notional_from_risk(risk_percent, DeskMarket, stop_loss)
    \/ \E req \in DeskOrders : sim_place_order(req)
    \/ \E price \in DeskPrices : update_price(DeskMarket, price)
    \/ \E position_id \in IdInputs : sim_close_position(position_id, None)
    \/ sim_portfolio_state
    \/ sim_reset(None)

DeskSpec == DeskInit /\ [][DeskNext]_vars

\* the adapter feeding GLOBAL_SIMULATOR: candles are fetched, the exchanges
\* are reconfigured, and the agent opens positions with a stop: one at the
\* market, one with an entry price of 0
FeedOrders ==
    {Order(DeskMarket, "long", R(2000), None, R(1), None),
     Order(DeskMarket, "long", R(2000), R(0), R(1), None)}

FeedNext ==
    \/ \E pair \in Markets, fetch \in FeedInputs : get_ohlcv(pair, fetch)
    \/ \E order \in FallbackInputs : set_fallback_exchanges(order)
    \/ \E exchange_id \in PrimaryInputs : set_primary_exchange(exchange_id)
    \/ \E req \in FeedOrders : sim_place_order(req)

FeedSpec == DeskInit /\ [][FeedNext]_vars

-----------------------------------------------------------------------------
(* Derived quantities used by the properties *)

OpenIds == DOMAIN positions
HistoryIds == {trade_history[i].id : i \in DOMAIN trade_history}
AllPositions ==
    {positions[id] : id \in OpenIds}
    \cup {trade_history[i] : i \in DOMAIN trade_history}

OpenNotional ==
    LET keys == KeysInOrder(OpenIds)
    IN  RSum([i \in 1..Len(keys) |-> positions[keys[i]].notional])

HistoryPnl == RSum([i \in 1..Len(trade_history) |-> trade_history[i].pnl])

ValidRequest(req) ==
    /\ Lower(req.side) \in {"long", "short"}
    /\ RLt(Zero, req.notional)

\* the PnL formula of the specification
SpecPnl(side, notional, entry_price, c) ==
    IF side = "long"
    THEN RMul(notional, RSub(RDiv(c, entry_price), One))
    ELSE RMul(notional, RSub(RDiv(entry_price, c), One))

\* the trigger rule of the specification
SpecTrigger(pos, p) ==
    IF pos.side = "long"
    THEN \/ pos.stop_loss # None /\ RLe(p, pos.stop_loss)
         \/ pos.take_profit # None /\ RLe(pos.take_profit, p)
    ELSE \/ pos.stop_loss # None /\ RLe(pos.stop_loss, p)
         \/ pos.take_profit # None /\ RLe(p, pos.take_profit)

IsPrefix(s, t) == Len(s) <= Len(t) /\ SubSeq(t, 1, Len(s)) = s

-----------------------------------------------------------------------------
(* Properties *)

\* C1 -- cash conservation: in every reachable state cash plus the notional
\* of all open positions equals initial_balance plus the pnl of all positions
\* in trade_history.
C1_CashConservation ==
    RAdd(cash, OpenNotional) = RAdd(initial_balance, HistoryPnl)

\* one position closed with a gain or a loss while another is open
C1_Witness ==
    /\ OpenIds # {}
    /\ \E i \in DOMAIN trade_history : trade_history[i].pnl # Zero

\* C2 -- idempotent close: closing the id of a position already in
\* trade_history returns that closed position and changes nothing.
C2_IdempotentClose ==
    \A i \in DOMAIN trade_history, price \in PriceInputs :
        LET r == ClosePosition(Self, trade_history[i].id, price)
        IN  /\ r.out = Returned(<<trade_history[i]>>)
            /\ r.self = Self

\* C3 -- insufficient funds: a request with a valid side and notional > 0
\* fails with "Insufficient cash" and changes nothing when notional > cash,
\* and does not fail that way when notional <= cash.
C3_InsufficientFunds ==
    \A req \in AnyOrder :
        ValidRequest(req) =>
            LET r == PlaceOrder(Self, req)
            IN  IF RLt(cash, req.notional)
                THEN /\ r.out = Raised("ValueError", "Insufficient cash")
                     /\ r.self = Self
                ELSE r.out.msg # "Insufficient cash"

\* the whole balance was accepted (notional = cash) and nothing is left
C3_Witness ==
    /\ cash = Zero
    /\ \E id \in OpenIds : positions[id].notional = StartBalance

\* C4 -- trigger correctness of ingest: after ingest(market, p) every position
\* that was open on the market and whose trigger rule holds at p is closed at
\* close_price p and is in trade_history; every other position is still open
\* and unchanged; the last price of every other market is unchanged.
C4_TriggerCorrectness ==
    \A pair \in Markets, p \in IngestPrices :
        LET after == UpdatePrice(Self, pair, p).self IN
        /\ \A id \in OpenIds :
              LET pos == positions[id] IN
              IF pos.pair = pair /\ SpecTrigger(pos, p)
              THEN /\ id \notin DOMAIN after.positions
                   /\ \E i \in DOMAIN after.trade_history :
                         /\ after.trade_history[i].id = id
                         /\ after.trade_history[i].status = "closed"
                         /\ after.trade_history[i].close_price = p
              ELSE /\ id \in DOMAIN after.positions
                   /\ after.positions[id] = pos
        /\ \A m \in Markets \ {pair} : after.last_prices[m] = last_prices[m]

\* C5 -- effect of a successful close of an open position at price c: the
\* pnl is the formula's value, cash grows by notional + pnl, the position is
\* closed at c with that pnl, leaves the open set and is the last element of
\* trade_history; a short from 100 with notional 1000 closed at 80 gains 250.
C5_CloseEffect ==
    /\ \A id \in OpenIds, price \in PriceInputs :
          LET r == ClosePosition(Self, id, price)
              pos == positions[id]
              c == IF price = None THEN last_prices[pos.pair] ELSE price
          IN  r.out.status = "return" =>
                LET pnl == SpecPnl(pos.side, pos.notional, pos.entry_price, c)
                    closed == Head(r.out.value)
                IN  /\ r.self.cash = RAdd(cash, RAdd(pos.notional, pnl))
                    /\ closed.id = id
                    /\ closed.status = "closed"
                    /\ closed.close_price = c
                    /\ closed.pnl = pnl
                    /\ closed.entry_price = pos.entry_price
                    /\ closed.notional = pos.notional
                    /\ closed.side = pos.side
                    /\ id \notin DOMAIN r.self.positions
                    /\ r.self.trade_history = Append(trade_history, closed)
    /\ calc_pnl_price([side |-> "short", entry_price |-> R(100),
                       notional |-> R(1000)], R(80)) = R(250)

\* a short closed with a loss and a long closed with a gain are in history
C5_Witness ==
    /\ \E i \in DOMAIN trade_history :
          /\ trade_history[i].side = "short"
          /\ RLt(trade_history[i].pnl, Zero)
    /\ \E i \in DOMAIN trade_history :
          /\ trade_history[i].side = "long"
          /\ RLt(Zero, trade_history[i].pnl)

\* C6 -- cash is never negative.
C6_CashNonNegative == RLe(Zero, cash)

\* C7 -- reset clears state: from any reachable state reset() sets cash to
\* initial_balance (to the new value, which becomes initial_balance, when one
\* is given) and leaves the open set, trade_history and last prices empty.
C7_ResetClears ==
    /\ \A b \in BalanceInputs \cup {StartBalance} :
          LET after == Reset(Self, b).self
              want == IF b = None THEN initial_balance ELSE b
          IN  /\ after.initial_balance = want
              /\ after.cash = want
              /\ DOMAIN after.positions = {}
              /\ after.trade_history = <<>>
              /\ \A m \in Markets : after.last_prices[m] = None
    /\ issued = {} => /\ cash = initial_balance
                      /\ OpenIds = {}
                      /\ trade_history = <<>>

\* reset was given a new balance after positions had been opened
C7_Witness ==
    /\ next_uuid > 1
    /\ issued = {}
    /\ initial_balance # StartBalance
    /\ cash = initial_balance
    /\ \A m \in Markets : last_prices[m] = None

\* C8 -- position field consistency: for every position, open or in history,
\* pnl is set iff state = closed, and closed_at, close_price and pnl are all
\* set or all unset.
C8_FieldConsistency ==
    \A pos \in AllPositions :
        /\ pos.pnl # None <=> pos.status = "closed"
        /\ \/ pos.closed_at # None /\ pos.close_price # None /\ pos.pnl # None
           \/ pos.closed_at = None /\ pos.close_price = None /\ pos.pnl = None

\* a position closed with pnl 0.0 beside an open one
C8_Witness ==
    /\ OpenIds # {}
    /\ \E i \in DOMAIN trade_history : trade_history[i].pnl = Zero

\* C9 -- open set and history partition the positions: open ones have state
\* open, those in history state closed, no id is in both or twice in history,
\* and every position created since the last reset is in exactly one of them.
C9_Partition ==
    /\ \A id \in OpenIds : positions[id].status = "open" /\ positions[id].id = id
    /\ \A i \in DOMAIN trade_history : trade_history[i].status = "closed"
    /\ OpenIds \cap HistoryIds = {}
    /\ \A i, j \in DOMAIN trade_history :
          trade_history[i].id = trade_history[j].id => i = j
    /\ issued = OpenIds \cup HistoryIds

\* one position open and one in history
C9_Witness ==
    /\ Cardinality(OpenIds) = 1
    /\ Len(trade_history) = 1
    /\ Cardinality(issued) = 2

\* C10 -- history is append-only and closed positions are frozen: on every
\* step other than reset the old trade_history is a prefix of the new one and
\* no position in history returns to the open set.
C10_AppendOnly ==
    [][ (~ \E b \in BalanceInputs : reset(b)) =>
            /\ IsPrefix(trade_history, trade_history')
            /\ HistoryIds \cap DOMAIN positions' = {} ]_vars

\* two positions closed one after the other
C10_Witness ==
    /\ Len(trade_history) = 2
    /\ trade_history[1].closed_at[1] < trade_history[2].closed_at[1]

\* the failure kinds of the specification, told apart in the code by the
\* exception and its message
FailureKind(out) ==
    IF out.status # "raise" THEN "none"
    ELSE IF out.exc = "KeyError" THEN "NotFound"
    ELSE IF out.exc = "ValueError" /\ out.msg = "No last price" THEN "NoPriceAvailable"
    ELSE IF out.exc = "ValueError" /\ out.msg = "Insufficient cash" THEN "InsufficientFunds"
    ELSE IF out.exc = "ValueError" THEN "InvalidArgument"
    ELSE out.exc

\* C11 -- non-positive prices are guarded: an open with a supplied
\* entry_price <= 0 and a close with a supplied price <= 0 fail and leave the
\* simulator as it was, and no position, open or closed, has an entry_price
\* <= 0 or a close_price <= 0.
C11_NonPositivePricesGuarded ==
    /\ \A req \in AnyOrder :
          req.entry_price # None /\ RLe(req.entry_price, Zero) =>
              LET r == PlaceOrder(Self, req)
              IN  r.out.status = "raise" /\ r.self = Self
    /\ \A id \in OpenIds, price \in PriceInputs \ {None} :
          RLe(price, Zero) =>
              LET r == ClosePosition(Self, id, price)
              IN  r.out.status = "raise" /\ r.self = Self
    /\ \A p \in AllPositions :
          /\ RLt(Zero, p.entry_price)
          /\ p.close_price # None => RLt(Zero, p.close_price)

\* C12 -- closing an id that no open has returned since the last reset fails
\* with NotFound (KeyError; an error answer from sim_close_position) and
\* leaves cash, the open positions, the trade history and the last prices as
\* they were.
C12_CloseUnknownId ==
    \A id \in (0..(MaxPositions + 1)) \ issued, price \in PriceInputs :
        LET r == ClosePosition(Self, id, price)
            a == SimClosePosition(Self, id, price)
        IN  /\ FailureKind(r.out) = "NotFound"
            /\ r.self = Self
            /\ a.out.status = "return"
            /\ a.out.value[1].status = "error"
            /\ a.self = Self

\* ids have been issued, positions are open and closed, and an id that was
\* never issued is refused
C12_Witness ==
    /\ OpenIds # {}
    /\ trade_history # <<>>
    /\ \E id \in IdInputs \ issued :
          ClosePosition(Self, id, None).out = Raised("KeyError", "not found")

\* affordable requests: sides in both cases, entry_price and stop_loss given
\* or omitted
OpenRequests ==
    {Order(m, s, R(1), e, sl, None) :
        m \in Markets, s \in {"long", "LONG", "short"},
        e \in {None, R(1)}, sl \in {None, R(1)}}

\* C13 -- a successful open takes exactly notional from cash and adds exactly
\* one position: open, on the requested market, with the lower-cased side,
\* the given notional, stop_loss and take_profit, and the supplied
\* entry_price (the market's last price when omitted); the trade history,
\* the last prices and the positions already open stay as they were.
C13_OpenEffect ==
    \A req \in OpenRequests \cup Orders :
        LET r == PlaceOrder(Self, req) IN
        r.out.status = "return" =>
            LET pos == r.out.value[1] IN
            /\ r.self.cash = RSub(cash, req.notional)
            /\ pos.id \notin OpenIds
            /\ DOMAIN r.self.positions = OpenIds \cup {pos.id}
            /\ r.self.positions[pos.id] = pos
            /\ pos.status = "open"
            /\ pos.pair = req.pair
            /\ pos.side = Lower(req.side)
            /\ pos.side \in {"long", "short"}
            /\ pos.notional = req.notional
            /\ pos.stop_loss = req.stop_loss
            /\ pos.take_profit = req.take_profit
            /\ pos.entry_price = IF req.entry_price = None
                                 THEN last_prices[req.pair]
                                 ELSE req.entry_price
            /\ pos.closed_at = None /\ pos.close_price = None /\ pos.pnl = None
            /\ \A id \in OpenIds : r.self.positions[id] = positions[id]
            /\ r.self.trade_history = trade_history
            /\ r.self.last_prices = last_prices
            /\ r.self.initial_balance = initial_balance

\* two opens have succeeded, one of them entered at the market's last price
C13_Witness ==
    /\ Cardinality(OpenIds) = 2
    /\ \E id \in OpenIds : positions[id].entry_price = last_prices[positions[id].pair]
    /\ cash = RSub(StartBalance, OpenNotional)
    /\ \E req \in Orders : req.side = "LONG" /\ PlaceOrder(Self, req).out.status = "return"

\* C14 -- (as stated) each of the three validation failures is reported under
\* its own kind whatever else is wrong with the request: a side other than
\* long/short in any letter case gives InvalidArgument, a notional <= 0 gives
\* InvalidArgument, an omitted entry_price on a market with no last price
\* gives NoPriceAvailable; and the simulator is left as it was.
C14_ValidationAsStated ==
    \A req \in AnyOrder :
        LET r == PlaceOrder(Self, req) IN
        /\ InvalidSide(req.side) =>
              FailureKind(r.out) = "InvalidArgument" /\ r.self = Self
        /\ RLe(req.notional, Zero) =>
              FailureKind(r.out) = "InvalidArgument" /\ r.self = Self
        /\ req.entry_price = None /\ last_prices[req.pair] = None =>
              FailureKind(r.out) = "NoPriceAvailable" /\ r.self = Self

\* C14 -- (amended) the checks run in the order side, notional, cash, price
\* and the first one that fails names the failure: a side other than
\* long/short in any letter case gives InvalidArgument; a notional <= 0 gives
\* InvalidArgument; an omitted entry_price on a market with no last price
\* gives NoPriceAvailable when the side is valid and 0 < notional <= cash
\* (InsufficientFunds when notional > cash); in every case cash, the open
\* positions, the trade history and the last prices are as before.
C14_ValidationFailures ==
    \A req \in AnyOrder :
        LET r == PlaceOrder(Self, req)
            side_ok == Lower(req.side) \in {"long", "short"}
            notional_ok == RLt(Zero, req.notional)
            no_price == req.entry_price = None /\ last_prices[req.pair] = None
        IN
        /\ ~side_ok => FailureKind(r.out) = "InvalidArgument"
        /\ ~notional_ok => FailureKind(r.out) = "InvalidArgument"
        /\ no_price /\ side_ok /\ notional_ok /\ RLe(req.notional, cash) =>
              FailureKind(r.out) = "NoPriceAvailable"
        /\ no_price /\ side_ok /\ notional_ok /\ RLt(cash, req.notional) =>
              FailureKind(r.out) = "InsufficientFunds"
        /\ ~side_ok \/ ~notional_ok \/ no_price =>
              r.out.status = "raise" /\ r.self = Self

\* with a position open and a trade closed, one market still has no last
\* price and an affordable open on it without entry_price is refused
C14_Witness ==
    /\ OpenIds # {}
    /\ trade_history # <<>>
    /\ RLt(cash, StartBalance)
    /\ \E req \in AnyOrder :
          /\ req.entry_price = None /\ last_prices[req.pair] = None
          /\ PlaceOrder(Self, req).out = Raised("ValueError", "No last price")

\* C15 -- closing an open position without a price closes it at the last
\* price of its market, exactly as a close at that price would; when the
\* market has no last price the close fails with NoPriceAvailable, the
\* position stays open and cash and the trade history are unchanged.
C15_CloseWithoutPrice ==
    \A id \in OpenIds :
        LET pos == positions[id]
            last == last_prices[pos.pair]
            r == ClosePosition(Self, id, None)
        IN  IF last = None
            THEN /\ FailureKind(r.out) = "NoPriceAvailable"
                 /\ r.self = Self
                 /\ id \in DOMAIN r.self.positions
                 /\ r.self.positions[id].status = "open"
            ELSE /\ r = ClosePosition(Self, id, last)
                 /\ r.out.status = "return" =>
                       /\ r.out.value[1].close_price = last
                       /\ r.self.trade_history = Append(trade_history, r.out.value[1])

\* an open position whose market has no last price, beside a trade that was
\* closed at the last price of its market, away from its entry price
C15_Witness ==
    /\ \E id \in OpenIds : last_prices[positions[id].pair] = None
    /\ \E i \in DOMAIN trade_history :
          /\ trade_history[i].close_price = last_prices[trade_history[i].pair]
          /\ trade_history[i].close_price # trade_history[i].entry_price

\* a tool's call ended with a dict whose status is success or error
Answered(r) ==
    /\ r.out.status = "return"
    /\ r.out.value[1].status \in {"success", "error"}

\* C16 -- every tool the agent calls (sim_place_order, sim_close_position,
\* sim_portfolio_state, sim_trade_history, sim_reset,
\* suggest_notional_from_risk) answers, in every reachable state and for
\* every argument, with status success or error: no exception escapes.
C16_NoExceptionEscapes ==
    /\ \A req \in AnyOrder \cup Orders : Answered(SimPlaceOrder(Self, req))
    /\ \A id \in IdInputs, price \in PriceInputs :
          Answered(SimClosePosition(Self, id, price))
    /\ Answered(SimPortfolioState(Self))
    /\ \A limit \in LimitInputs : Answered(SimTradeHistory(Self, limit))
    /\ \A new_balance \in BalanceInputs : Answered(SimReset(Self, new_balance))
    /\ \A risk_percent \in RiskInputs, pair \in Markets, stop_loss \in StopInputs :
          Answered(SuggestNotionalFromRisk(Self, risk_percent, pair, stop_loss))

Min(a, b) == IF a < b THEN a ELSE b

\* C17 -- for every limit >= 0, trade_history_summary(limit) returns exactly
\* the min(limit, n) most recently closed of the n trades, in close order;
\* total_trades is that count and total_pnl the sum of pnl over exactly the
\* returned trades.
C17_HistoryWindow ==
    \A limit \in LimitInputs :
        limit >= 0 =>
            LET r == TradeHistorySummary(Self, limit)
                n == Len(trade_history)
                k == Min(limit, n)
                recent == SubSeq(trade_history, n - k + 1, n)
            IN  /\ r.out.status = "return"
                /\ r.out.value[1].trades = recent
                /\ r.out.value[1].total_trades = k
                /\ r.out.value[1].total_pnl =
                       RSum([i \in DOMAIN recent |-> recent[i].pnl])

\* C18 -- in the history summary wins counts the returned trades with
\* pnl > 0 and losses those with pnl < 0, a trade with pnl = 0 is in neither,
\* so wins + losses <= total_trades; win_rate is wins / total_trades, and 0
\* when no trade is returned.
C18_WinLossStatistics ==
    \A limit \in LimitInputs :
        LET r == TradeHistorySummary(Self, limit)
            h == r.out.value[1]
            won == {i \in DOMAIN h.trades : RLt(Zero, h.trades[i].pnl)}
            lost == {i \in DOMAIN h.trades : RLt(h.trades[i].pnl, Zero)}
            flat == {i \in DOMAIN h.trades : h.trades[i].pnl = Zero}
        IN  /\ r.out.status = "return"
            /\ h.total_trades = Len(h.trades)
            /\ h.wins = Cardinality(won)
            /\ h.losses = Cardinality(lost)
            /\ h.wins + h.losses + Cardinality(flat) = h.total_trades
            /\ h.wins + h.losses <= h.total_trades
            /\ h.total_trades > 0 =>
                   RMul(h.win_rate, R(h.total_trades)) = R(h.wins)
            /\ h.total_trades = 0 => h.win_rate = Zero

\* the history holds a flat trade beside a winning one, and the summary
\* counts one win in two trades
C18_Witness ==
    /\ \E i, j \in DOMAIN trade_history :
          /\ trade_history[i].pnl = Zero
          /\ RLt(Zero, trade_history[j].pnl)
    /\ TradeHistorySummary(Self, 50).out.value[1].wins = 1
    /\ TradeHistorySummary(Self, 50).out.value[1].losses = 0
    /\ TradeHistorySummary(Self, 50).out.value[1].win_rate = <<1, 2>>

\* sum over the open positions of their PnL at the last price of their
\* market, 0 for a market without one
SpecUnrealized ==
    LET keys == KeysInOrder(OpenIds)
    IN  RSum([i \in 1..Len(keys) |->
                LET pos == positions[keys[i]] IN
                IF last_prices[pos.pair] = None THEN Zero
                ELSE SpecPnl(pos.side, pos.notional, pos.entry_price,
                             last_prices[pos.pair])])

\* C19 -- in every reachable state portfolio_state() reports equity = cash +
\* the unrealized pnl of the open positions at the last price of their
\* market (0 for a market without one), realized_pnl = the sum of pnl over
\* the whole trade history, open_count = the number of open positions and
\* trade_count = the length of the trade history.
C19_SnapshotValues ==
    LET r == PortfolioState(Self) IN
    /\ r.out.status = "return"
    /\ r.out.value[1].equity = RAdd(cash, SpecUnrealized)
    /\ r.out.value[1].realized_pnl = HistoryPnl
    /\ r.out.value[1].open_count = Cardinality(OpenIds)
    /\ r.out.value[1].trade_count = Len(trade_history)

\* C20 -- portfolio_state, trade_history_summary and
\* suggest_notional_from_risk, whether they succeed or fail, leave cash,
\* initial_balance, the open positions, the trade history and the last
\* prices unchanged.
C20_ReadsDoNotMutate ==
    /\ PortfolioState(Self).self = Self
    /\ \A limit \in LimitInputs : TradeHistorySummary(Self, limit).self = Self
    /\ \A risk_percent \in RiskInputs, pair \in Markets, stop_loss \in StopInputs :
          SuggestNotionalFromRisk(Self, risk_percent, pair, stop_loss).self = Self

\* with a position open and a trade closed, a sizing succeeds and another
\* fails, and a summary hands out a trade
C20_Witness ==
    /\ OpenIds # {}
    /\ trade_history # <<>>
    /\ PortfolioState(Self).out.status = "return"
    /\ TradeHistorySummary(Self, 1).out.value[1].total_trades = 1
    /\ \E pair \in Markets, stop_loss \in StopInputs :
          /\ SuggestNotionalFromRisk(Self, R(1), pair, stop_loss)
                 .out.value[1].status = "success"
          /\ SuggestNotionalFromRisk(Self, R(0), pair, stop_loss)
                 .out.value[1].status = "error"

\* C21 -- the last prices change only through update_price and reset:
\* place_order (entry_price given or omitted) and close_position (price
\* given or omitted, also a price other than the last one) leave the last
\* price of every market as it was, and update_price(pair, p) sets the last
\* price of pair to p, whatever it was, and no other.
C21_LastPriceFrame ==
    /\ \A req \in Orders : PlaceOrder(Self, req).self.last_prices = last_prices
    /\ \A id \in OpenIds, price \in PriceInputs :
          ClosePosition(Self, id, price).self.last_prices = last_prices
    /\ \A pair \in Markets, p \in IngestPrices :
          LET after == UpdatePrice(Self, pair, p).self.last_prices IN
          /\ after[pair] = p
          /\ \A m \in Markets \ {pair} : after[m] = last_prices[m]

\* a market's price has been replaced; since then a position was opened at
\* another entry price and a trade closed at another price, and the last
\* price stands
C21_Witness ==
    \E m \in Markets :
        /\ last_prices[m] = R(2)
        /\ \E id \in OpenIds :
              positions[id].pair = m /\ positions[id].entry_price # last_prices[m]
        /\ \E i \in DOMAIN trade_history :
              /\ trade_history[i].pair = m
              /\ trade_history[i].close_price # last_prices[m]

\* equity as the specification defines it: cash plus the unrealized pnl of
\* the open positions at the last prices
SpecEquity == RAdd(cash, SpecUnrealized)

\* C22 -- when equity > 0, risk_percent > 0, the market has a last price and
\* stop_loss differs from it, suggest_notional_from_risk answers success
\* with risk_amount = equity * risk_percent / 100 and notional =
\* risk_amount / |1 - stop_loss / last_price|, and reports the equity and
\* the last price it used; equity 10000, risk 1, last price 100 and stop 95
\* give risk_amount 100 and notional 2000; a stop at the same fractional
\* distance on the other side of the last price gives the same result.
C22_RiskSizing ==
    PortfolioState(Self).out.status = "return" =>
    \A risk_percent \in DeskRisks, pair \in Markets, stop_loss \in DeskPrices :
        LET last == last_prices[pair]
            r == SuggestNotionalFromRisk(Self, risk_percent, pair, stop_loss)
        IN
        (/\ RLt(Zero, SpecEquity)
         /\ RLt(Zero, risk_percent)
         /\ last # None
         /\ stop_loss # last) =>
            LET a == r.out.value[1]
                dist == RAbs(RSub(One, RDiv(stop_loss, last)))
            IN
            /\ r.out.status = "return"
            /\ a.status = "success"
            /\ a.body[1].equity = SpecEquity
            /\ a.body[1].last_price = last
            /\ a.body[1].risk_amount = RDiv(RMul(SpecEquity, risk_percent), R(100))
            /\ a.body[1].notional = RDiv(a.body[1].risk_amount, dist)
            /\ (/\ SpecEquity = R(10000) /\ risk_percent = R(1)
                /\ last = R(100) /\ stop_loss = R(95)) =>
                   a.body[1].risk_amount = R(100) /\ a.body[1].notional = R(2000)
            /\ \A other \in DeskPrices :
                   RAbs(RSub(One, RDiv(other, last))) = dist =>
                       SuggestNotionalFromRisk(Self, risk_percent, pair, other)
                           .out.value[1] = a

\* the example of the specification: equity 10000 and a last price of 100,
\* where 1% with the stop at 95, and at 105, is sized at 2000
C22_Witness ==
    /\ last_prices[DeskMarket] = R(100)
    /\ PortfolioState(Self).out.status = "return"
    /\ SpecEquity = R(10000)
    /\ SuggestNotionalFromRisk(Self, R(1), DeskMarket, R(95))
           .out.value[1].body[1].notional = R(2000)
    /\ SuggestNotionalFromRisk(Self, R(1), DeskMarket, R(105))
           .out.value[1].body[1].notional = R(2000)

\* the failure kinds of risk sizing, told apart in the code by the message
SizingFailure(a) ==
    IF a.status # "error" THEN "none"
    ELSE IF a.error_message = "Equity is non-positive" THEN "NonPositiveEquity"
    ELSE IF a.error_message = "No last price" THEN "NoPriceAvailable"
    ELSE IF a.error_message = "risk_percent must be > 0" THEN "InvalidArgument"
    ELSE IF a.error_message = "Stop distance is zero" THEN "ZeroStopDistance"
    ELSE a.error_message

\* C23 -- (as stated) each of the four failures is reported under its own
\* kind whatever else is wrong: equity <= 0 gives NonPositiveEquity,
\* risk_percent <= 0 gives InvalidArgument, a market without a last price
\* gives NoPriceAvailable, a stop_loss equal to the last price gives
\* ZeroStopDistance; success only when none of the four holds.
C23_FailuresAsStated ==
    \A risk_percent \in RiskInputs, pair \in Markets, stop_loss \in StopInputs :
        LET r == SuggestNotionalFromRisk(Self, risk_percent, pair, stop_loss)
            a == r.out.value[1]
            known == PortfolioState(Self).out.status = "return"
            last == last_prices[pair]
        IN
        /\ r.out.status = "return"
        /\ known /\ RLe(SpecEquity, Zero) => SizingFailure(a) = "NonPositiveEquity"
        /\ RLe(risk_percent, Zero) => SizingFailure(a) = "InvalidArgument"
        /\ last = None => SizingFailure(a) = "NoPriceAvailable"
        /\ last # None /\ stop_loss = last => SizingFailure(a) = "ZeroStopDistance"
        /\ a.status = "success" =>
              /\ known /\ RLt(Zero, SpecEquity)
              /\ RLt(Zero, risk_percent)
              /\ last # None /\ stop_loss # last

\* C23 -- (amended) suggest_notional_from_risk answers an error, never a
\* success with a notional, when equity <= 0, when risk_percent <= 0, when
\* the market has no last price, when stop_loss equals the last price, and
\* when the equity cannot be computed; it answers success exactly when none
\* of these holds.  The checks run in the order equity, last price,
\* risk_percent, stop distance, and the first that fails names the failure:
\* NonPositiveEquity, NoPriceAvailable, InvalidArgument, ZeroStopDistance.
C23_SizingFailures ==
    LET known == PortfolioState(Self).out.status = "return"
        no_equity == known /\ RLe(SpecEquity, Zero)
    IN
    \A risk_percent \in RiskInputs, pair \in Markets, stop_loss \in StopInputs :
        LET r == SuggestNotionalFromRisk(Self, risk_percent, pair, stop_loss)
            a == r.out.value[1]
            last == last_prices[pair]
            no_price == last = None
            no_risk == RLe(risk_percent, Zero)
            no_dist == last # None /\ stop_loss = last
        IN
        /\ r.out.status = "return"
        /\ a.status \in {"success", "error"}
        /\ a.status = "success" <=>
              known /\ ~no_equity /\ ~no_price /\ ~no_risk /\ ~no_dist
        /\ a.status = "error" => a.body = None
        /\ no_equity => SizingFailure(a) = "NonPositiveEquity"
        /\ known /\ ~no_equity /\ no_price => SizingFailure(a) = "NoPriceAvailable"
        /\ known /\ ~no_equity /\ ~no_price /\ no_risk =>
              SizingFailure(a) = "InvalidArgument"
        /\ known /\ ~no_equity /\ ~no_price /\ ~no_risk /\ no_dist =>
              SizingFailure(a) = "ZeroStopDistance"

\* the account is in debt and one market has a price: every sizing is
\* refused for the equity, whatever else is wrong with the request
C23_Witness ==
    /\ PortfolioState(Self).out.status = "return"
    /\ RLt(SpecEquity, Zero)
    /\ \E pair \in Markets : last_prices[pair] # None
    /\ \A risk_percent \in RiskInputs, pair \in Markets, stop_loss \in StopInputs :
          SuggestNotionalFromRisk(Self, risk_percent, pair, stop_loss)
              .out.value[1].error_message = "Equity is non-positive"

NoDuplicateTrade ==
    \A i, j \in DOMAIN trade_history :
        trade_history[i].id = trade_history[j].id => i = j

\* the account invariants, between calls: cash is not negative, cash is the
\* starting balance less the open notional plus the realized pnl, and no
\* trade is recorded twice
AccountInvariants ==
    threads = NoCalls =>
        /\ RLe(Zero, cash)
        /\ cash = RAdd(RSub(initial_balance, OpenNotional), HistoryPnl)
        /\ NoDuplicateTrade

\* no position is both open and in the history, whoever looks and when
NeverTorn == OpenIds \cap HistoryIds = {}

\* C25 -- when every operation runs as one atomic step, no reachable state
\* violates the account invariants (cash >= 0, cash conservation, no
\* duplicate history entry), and no state that a snapshot or a history call
\* could observe has a position both open and in the history.  (The other
\* half of the claim, that interleaved callers do reach such states, is
\* what RaceSpec exhibits.)
C25_AtomicOperationsAreSafe ==
    /\ AccountInvariants
    /\ NeverTorn

\* the open positions of a market whose trigger holds at price p, in dict order
Triggered(pair, p) ==
    SelectSeq(KeysInOrder(OpenIds),
              LAMBDA id : positions[id].pair = pair /\ SpecTrigger(positions[id], p))

\* C26 -- a triggered close is the same transition as a manual close: for
\* every market, price p and open position x of that market whose trigger
\* holds at p, update_price(market, p) leaves x as close_position(x, p)
\* would in the same state: closed at p (not at the stop or the target),
\* with the same pnl and the same trade history entry, and cash credited by
\* the same amount.
C26_TriggeredCloseIsManualClose ==
    \A pair \in Markets, p \in IngestPrices :
        LET u == UpdatePrice(Self, pair, p)
            hit == Triggered(pair, p)
            manual(id) == ClosePosition(Self, id, p)
        IN
        /\ \A n \in DOMAIN hit :
              LET c == manual(hit[n]) IN
              IF c.out.status = "raise"
              THEN /\ hit[n] \in DOMAIN u.self.positions
                   /\ u.self.positions[hit[n]] = positions[hit[n]]
              ELSE /\ hit[n] \notin DOMAIN u.self.positions
                   /\ \E i \in DOMAIN u.self.trade_history :
                         /\ [u.self.trade_history[i] EXCEPT !.closed_at = None]
                                = [c.out.value[1] EXCEPT !.closed_at = None]
                         /\ u.self.trade_history[i].close_price = p
        /\ u.self.cash =
              RAdd(cash,
                   RSum([n \in DOMAIN hit |-> RSub(manual(hit[n]).self.cash, cash)]))


\* the requests the cap is examined on: the orders of the desk, one just
\* above a fifth of the starting balance, and one of negative size
CapRequests ==
    DeskOrders
    \cup {Order(DeskMarket, "long", R(2001), R(1), None, None),
          Order(DeskMarket, "short", R(-1), None, None, None)}

\* C27 -- sim_place_order answers status "error" and leaves the ledger
\* unchanged for every request whose notional exceeds 20% of the equity at
\* the time of the call, so a position it opens has notional <= 0.20 * the
\* equity before the open; a request within the cap still has to pass the
\* ledger's checks: it fails, ledger unchanged, when notional > cash.
C27_PerTradeCap ==
    \A req \in CapRequests :
        LET r == SimPlaceOrder(Self, req)
            a == r.out.value[1]
            cap == RMul(<<1, 5>>, SpecEquity)
        IN
        /\ r.out.status = "return"
        /\ RLt(cap, req.notional) => a.status = "error" /\ r.self = Self
        /\ a.status = "success" =>
              /\ RLe(req.notional, cap)
              /\ a.body[1].position.notional = req.notional
              /\ a.body[1].position.id \in DOMAIN r.self.positions
              /\ a.body[1].position.id \notin OpenIds
        /\ (RLe(req.notional, cap) /\ RLt(cash, req.notional)) =>
              a.status = "error" /\ r.self = Self

\* a position opened at exactly the cap is open, the equity has grown so
\* that the whole starting balance is within the cap, and that request
\* fails for lack of cash
C27_Witness ==
    /\ \E id \in OpenIds : positions[id].notional = R(2000)
    /\ cash = R(8000)
    /\ RLe(GlobalBalance, RMul(<<1, 5>>, SpecEquity))
    /\ SimPlaceOrder(Self, Order(DeskMarket, "long", GlobalBalance, None, None, None))
           .out.value[1].status = "error"


\* the order the specification gives: the primary, then the other fallbacks
FailoverOrder ==
    <<primary_exchange_id>>
        \o SelectSeq(fallback_exchanges, LAMBDA e : e # primary_exchange_id)

\* the exchange is known to ccxt, has the timeframe and its fetch returns
Answers(e, fetch) == e \in CcxtExchanges /\ fetch[e].kind = "ok"

\* the place in the failover order of the first exchange that answers, 0
\* when none does
FirstAnswering(fetch) ==
    LET answering == {i \in DOMAIN FailoverOrder : Answers(FailoverOrder[i], fetch)}
    IN  IF answering = {} THEN 0
        ELSE CHOOSE i \in answering : \A j \in answering : i <= j

\* C28 -- get_ohlcv tries the primary exchange first, then the other
\* fallback exchanges in their configured order, passes over each one that
\* raises or lacks the timeframe and stops at the first whose fetch
\* succeeds; that exchange is the primary afterwards, so that a following
\* call tries it first; when every candidate fails the primary is unchanged.
C28_FailoverOrderAndStickiness ==
    \A pair \in Markets, fetch \in FeedInputs :
        LET g == GetOhlcv(primary_exchange_id, fallback_exchanges, Self, pair, fetch)
            first == FirstAnswering(fetch)
        IN
        IF first = 0
        THEN /\ g.tried = FailoverOrder
             /\ g.primary = primary_exchange_id
        ELSE /\ g.tried = SubSeq(FailoverOrder, 1, first)
             /\ g.primary = FailoverOrder[first]
             /\ g.out.status = "return" =>
                   /\ g.out.value[1].status = "success"
                   /\ g.out.value[1].body[1].exchange = FailoverOrder[first]
             /\ LET again == GetOhlcv(g.primary, fallback_exchanges, g.self, pair, fetch)
                IN  /\ again.tried = <<g.primary>>
                    /\ again.primary = g.primary

\* the third exchange of the default order is the primary, which only a
\* failover past binance and kraken brings about, and its candles were
\* ingested
C28_Witness ==
    /\ primary_exchange_id = "coinbaseexchange"
    /\ fallback_exchanges = FallbackDefault
    /\ last_prices[DeskMarket] = R(2)

\* C29 -- a call of get_ohlcv ingests at most one price into the ledger:
\* the close of the last candle of the series of the first exchange that
\* succeeded, and only when that series is not empty; when every candidate
\* fails it answers status "error" and last prices, open positions, cash
\* and trade history are unchanged.
C29_AdapterIngest ==
    \A pair \in Markets, fetch \in FeedInputs :
        LET g == GetOhlcv(primary_exchange_id, fallback_exchanges, Self, pair, fetch)
            first == FirstAnswering(fetch)
        IN
        /\ \A m \in Markets \ {pair} : g.self.last_prices[m] = last_prices[m]
        /\ IF first = 0
           THEN /\ g.out.status = "return"
                /\ g.out.value[1].status = "error"
                /\ g.self = Self
           ELSE LET series == fetch[FailoverOrder[first]].closes IN
                IF series = <<>> \/ (\E i \in DOMAIN series : series[i] = None)
                THEN g.self = Self
                ELSE /\ g.self.last_prices[pair] = series[Len(series)]
                     /\ g.self = UpdatePrice(Self, pair, series[Len(series)]).self

\* candles whose last close is 1 were ingested and closed a position at its
\* stop
C29_Witness ==
    /\ last_prices[DeskMarket] = R(1)
    /\ \E i \in DOMAIN trade_history :
          /\ trade_history[i].close_price = R(1)
          /\ trade_history[i].entry_price = R(2)


\* C30 -- triggers are evaluated by an ingest for the market of the position
\* and by nothing else: an open leaves the new position open, its notional
\* taken from cash, also when the last price of its market already
\* satisfies its stop-loss or take-profit, and every open position, such a
\* one included, is still open and unchanged after any open, any close of
\* another position, any snapshot or history read and any ingest for
\* another market.
C30_TriggersOnlyOnIngest ==
    /\ \A req \in Orders :
          LET r == PlaceOrder(Self, req) IN
          r.out.status = "return" =>
              /\ r.out.value[1].status = "open"
              /\ r.out.value[1].id \in DOMAIN r.self.positions
              /\ r.self.positions[r.out.value[1].id] = r.out.value[1]
              /\ r.self.cash = RSub(cash, req.notional)
              /\ r.self.trade_history = trade_history
    /\ \A x \in OpenIds :
          LET kept(s) == /\ x \in DOMAIN s.positions
                         /\ s.positions[x] = positions[x]
                         /\ \A i \in DOMAIN s.trade_history : s.trade_history[i].id # x
          IN
          /\ \A req \in Orders : kept(PlaceOrder(Self, req).self)
          /\ \A id \in IdInputs \ {x}, price \in ClosePrices :
                kept(ClosePosition(Self, id, price).self)
          /\ \A m \in Markets \ {positions[x].pair}, p \in IngestPrices :
                kept(UpdatePrice(Self, m, p).self)
          /\ kept(PortfolioState(Self).self)
          /\ \A limit \in LimitInputs : kept(TradeHistorySummary(Self, limit).self)

\* a position whose trigger the last price of its market satisfies is
\* open, a position opened after it has been closed since, and the other
\* market has had a price
C30_Witness ==
    \E x \in OpenIds :
        /\ last_prices[positions[x].pair] # None
        /\ SpecTrigger(positions[x], last_prices[positions[x].pair])
        /\ \E i \in DOMAIN trade_history : x < trade_history[i].id
        /\ \E m \in Markets \ {positions[x].pair} : last_prices[m] # None


\* C31 -- equity leaves out the notional reserved by open positions: in
\* every reachable state the snapshot reports equity = initial_balance +
\* realized pnl + unrealized pnl - the total open notional; opening a
\* position of notional n at an entry price equal to the last price of its
\* market lowers the reported equity by exactly n, and closing it at that
\* price, with a pnl of 0, raises it by n again.
C31_EquityExcludesReserved ==
    LET before == PortfolioState(Self) IN
    /\ before.out.status = "return"
    /\ before.out.value[1].equity =
          RSub(RAdd(RAdd(initial_balance, HistoryPnl), SpecUnrealized), OpenNotional)
    /\ \A m \in Markets, side \in {"long", "short"}, n \in {R(1), StartBalance} :
          \A e \in {None, last_prices[m]} :
          last_prices[m] # None =>
              LET o == PlaceOrder(Self, Order(m, side, n, e, None, None)) IN
              o.out.status = "return" =>
                  LET mid == PortfolioState(o.self)
                      c == ClosePosition(o.self, o.out.value[1].id, last_prices[m])
                      after == PortfolioState(c.self)
                  IN
                  /\ mid.out.status = "return"
                  /\ mid.out.value[1].equity = RSub(before.out.value[1].equity, n)
                  /\ c.out.status = "return"
                  /\ c.out.value[1].pnl = Zero
                  /\ after.out.status = "return"
                  /\ after.out.value[1].equity = RAdd(mid.out.value[1].equity, n)
                  /\ after.out.value[1].equity = before.out.value[1].equity

=============================================================================
